---- MODULE Spec2Model ----
(***************************************************************************)
(* Model of src/hls_encrypt_watcher.py: the streaming AES-128-CBC          *)
(* encryption of a segment (encrypt_file), the playlist rewriter           *)
(* (insert_ext_x_key), the key material (parse_iv, read_key_file) and the   *)
(* watcher (HLSHandler and main).                                          *)
(*                                                                         *)
(* The specifications that share the module:                               *)
(*   SpecEncrypt   encrypt_file over every plaintext and every chunking    *)
(*   SpecPlaylist  insert_ext_x_key over every playlist                    *)
(*   SpecMaterial  parse_iv and read_key_file over IV strings and key files*)
(*   Spec          the watcher: startup, events, dedup, mirroring          *)
(*   SpecShutdown  Spec with a termination signal during the watch loop    *)
(*   SpecPattern   Spec started with or without --pattern                  *)
(*   SpecSegment   the watcher with one segment and more operations        *)
(*   SpecMirror    the watcher without I/O errors, every write later than  *)
(*                 the ones before and followed by its event               *)
(***************************************************************************)
EXTENDS Integers, Sequences, FiniteSets, TLC

VARIABLES
    \* ---- encrypt_file ----
    plain,      \* the bytes of the source file (in_path)
    fpos,       \* read position of fin
    prev,       \* the carried remainder (local variable prev)
    calls,      \* the argument of every cipher.encrypt call, in order
    fout,       \* the bytes written to out_path
    chain,      \* the cipher's CBC chaining block
    epc,        \* "idle" | "loop" | "done" | "error"
    \* ---- insert_ext_x_key ----
    klines,     \* the playlist given (the list lines)
    kout,       \* the list returned
    kpc,        \* "idle" | "input" | "done"
    \* ---- the watcher: the file system ----
    src,        \* the source root: path -> [mtime, size]
    dst,        \* the destination root: path -> [complete, mtime, size]
    dstRoot,    \* whether the destination root directory exists
    \* ---- the watcher: HLSHandler, the observer and main ----
    processed_mtime,  \* self._processed_mtime
    stable_tries,     \* self.stable_tries
    pattern_re,       \* self.pattern_re
    faulty,           \* whether system calls can fail with an I/O error
    queue,      \* the observer's event queue
    observer,   \* "unstarted" | "running" | "stopped" | "dead"
    mpc,        \* where the main thread is
    todo,       \* the entries of os.listdir(src) not yet processed
    hpc,        \* where the pass being run is ("idle": none is run)
    cur,        \* the locals of the pass being run
    ops,        \* the number of file operations the packager has done
    \* ---- the watcher: what the last pass did (history) ----
    passes,     \* path -> the mtimes at which a pass was triggered
    chk,        \* the last call of _should_process
    sw,         \* the last call of _stable_wait
    obs,        \* the last task: what it saw and did
    nopass,     \* path -> the highest mtime at which a pass failed or was
                \* skipped: ever, and since the entry was last cleared
    startup,    \* path -> the mtime at which the startup enumeration started
                \* a pass, while that pass is the latest one: until a pass
                \* at a greater mtime, or until a deleted event clears the
                \* entry (0: none)
    \* ---- main: the key material ----
    iv_str,     \* the IV string given (--key-iv or the third key-info line)
    key_raw,    \* the content of the key file
    iv_res,     \* iv_bytes of main: None or the bytes parse_iv returned
    key_res,    \* key_bytes of main
    rpc         \* "idle" | "args" | "iv" | "done" | "error"

evars == <<plain, fpos, prev, calls, fout, chain, epc>>
kvars == <<klines, kout, kpc>>
fsvars == <<src, dst, dstRoot>>
hvars == <<processed_mtime, stable_tries, queue, observer, mpc, todo, hpc, cur, ops>>
histvars == <<passes, chk, sw, obs, nopass>>
cfgvars == <<pattern_re, faulty>>
mvars == <<iv_str, key_raw, iv_res, key_res, rpc>>
wvars == <<fsvars, hvars, histvars, startup, cfgvars>>

Min(a, b) == IF a < b THEN a ELSE b

(***************************************************************************)
(* AES: the constants and the padding length.                              *)
(***************************************************************************)
BLOCKSIZE == 16
READ_CHUNK == 64 * 1024

\* The largest plaintext length explored.
MaxPlain == 33

\* Mutant of pkcs7_pad_length: no padding block for an aligned length.
pkcs7_pad_length_no_full_block(length) ==
    (BLOCKSIZE - (length % BLOCKSIZE)) % BLOCKSIZE

pkcs7_pad_length(length) ==
    BLOCKSIZE - (length % BLOCKSIZE)

\* bytes([pad_len]) * pad_len
PadBytes(pad_len) == [i \in 1..pad_len |-> pad_len]

\* data[:n] and data[n:]
Take(s, n) == SubSeq(s, 1, n)
Drop(s, n) == SubSeq(s, n + 1, Len(s))

(***************************************************************************)
(* The cipher object, AES.new(key, MODE_CBC, iv): a keyed permutation of   *)
(* 16-byte blocks chained block to block.  The block permutation stands    *)
(* for AES: it is a bijection on blocks that depends on the key, and every *)
(* ciphertext block depends on the block before it.                        *)
(***************************************************************************)
key_bytes == [j \in 1..BLOCKSIZE |-> (11 * j + 3) % 256]
iv_bytes  == [j \in 1..BLOCKSIZE |-> 0]

BlockEncrypt(b) == [j \in 1..BLOCKSIZE |-> (5 * b[j] + key_bytes[j] + j) % 256]

AddBlock(a, b) == [j \in 1..BLOCKSIZE |-> (a[j] + b[j]) % 256]

\* cipher.encrypt(data) for a block-aligned data: the bytes returned.
RECURSIVE CbcOut(_, _)
CbcOut(ch, data) ==
    IF Len(data) < BLOCKSIZE THEN <<>>
    ELSE LET c == BlockEncrypt(AddBlock(Take(data, BLOCKSIZE), ch))
         IN c \o CbcOut(c, Drop(data, BLOCKSIZE))

\* The chaining block after cipher.encrypt(data).
CbcChain(ch, data) ==
    IF Len(data) < BLOCKSIZE THEN ch
    ELSE LET o == CbcOut(ch, data) IN Drop(o, Len(o) - BLOCKSIZE)

(***************************************************************************)
(* encrypt_file                                                            *)
(***************************************************************************)
\* Mutant of FullLen: the whole buffer is submitted, remainder included.
FullLenWholeBuffer(data) == Len(data)

\* full_len = (len(data) // BLOCKSIZE) * BLOCKSIZE
FullLen(data) == (Len(data) \div BLOCKSIZE) * BLOCKSIZE

\* The plaintexts: every length up to MaxPlain, two byte patterns.
Seeds == {0, 101}
PlainOf(n, seed) == [i \in 1..n |-> (seed + 37 * i) % 256]

\* One call cipher.encrypt(block) followed by fout.write: PyCryptodome
\* raises ValueError when the data is not block-aligned, which ends encrypt_file.
Submit(block, nextPrev, nextPc) ==
    /\ calls' = Append(calls, block)
    /\ IF Len(block) % BLOCKSIZE = 0
       THEN /\ fout' = fout \o CbcOut(chain, block)
            /\ chain' = CbcChain(chain, block)
            /\ prev' = nextPrev
            /\ epc' = nextPc
       ELSE /\ epc' = "error"
            /\ UNCHANGED <<fout, chain, prev>>

\* One iteration of the loop with a non-empty chunk of k bytes.
EncRead ==
    /\ epc = "loop"
    /\ fpos < Len(plain)
    /\ \E k \in 1..Min(READ_CHUNK, Len(plain) - fpos) :
         LET chunk == SubSeq(plain, fpos + 1, fpos + k)
             data == prev \o chunk
             full_len == FullLen(data)
         IN /\ fpos' = fpos + k
            /\ IF full_len > 0
               THEN Submit(Take(data, full_len), Drop(data, full_len), "loop")
               ELSE /\ prev' = Drop(data, full_len)
                    /\ UNCHANGED <<calls, fout, chain, epc>>
    /\ UNCHANGED <<plain, kvars, wvars, mvars>>

\* The iteration that reads the empty chunk: pad, encrypt, break.
EncEof ==
    /\ epc = "loop"
    /\ fpos = Len(plain)
    /\ LET pad_len == pkcs7_pad_length(Len(prev))
           padded == prev \o PadBytes(pad_len)
       IN IF Len(padded) > 0
          THEN Submit(padded, prev, "done")
          ELSE /\ epc' = "done"
               /\ UNCHANGED <<calls, fout, chain, prev>>
    /\ UNCHANGED <<plain, fpos, kvars, wvars, mvars>>

EncIdle ==
    /\ plain = <<>> /\ fpos = 0 /\ prev = <<>> /\ calls = <<>>
    /\ fout = <<>> /\ chain = iv_bytes /\ epc = "idle"

EncInit ==
    /\ \E n \in 0..MaxPlain, seed \in Seeds : plain = PlainOf(n, seed)
    /\ fpos = 0 /\ prev = <<>> /\ calls = <<>>
    /\ fout = <<>> /\ chain = iv_bytes /\ epc = "loop"

(***************************************************************************)
(* m3u8: a line is the sequence of its characters, the line terminator     *)
(* included, so that str.startswith is a comparison of prefixes.           *)
(***************************************************************************)
\* l.startswith(p)
StartsWith(l, p) == Len(l) >= Len(p) /\ SubSeq(l, 1, Len(p)) = p

HASH      == <<"#">>
EXT_X_KEY == <<"#", "E", "X", "T", "-", "X", "-", "K", "E", "Y">>
EXT_X_MAP == <<"#", "E", "X", "T", "-", "X", "-", "M", "A", "P">>
EXTINF    == <<"#", "E", "X", "T", "I", "N", "F">>
NL        == <<"\n">>

key_uri == <<"k", "1">>

\* build_ext_x_key: the tag, the URI and, when an IV is given, the IV.
build_ext_x_key(uri, iv) ==
    LET line == EXT_X_KEY \o <<":", "U", "=">> \o uri
    IN (IF Len(iv) = 0 THEN line ELSE line \o <<",", "I", "V", "=">> \o iv) \o NL

\* The lines a playlist is made of, and the longest playlist explored.
MaxLines == 4
PlaylistLines ==
    { EXT_X_KEY \o <<":", "1">> \o NL,
      EXT_X_KEY \o <<":", "2">> \o NL,
      EXT_X_MAP \o <<":", "1">> \o NL,
      EXT_X_MAP \o <<":", "2">> \o NL,
      EXTINF \o <<":", "4">> \o NL,
      <<"#", "E", "X", "T", "M", "3", "U">> \o NL,
      <<"s", "1">> \o NL,
      NL }

Playlists == UNION { [1..n -> PlaylistLines] : n \in 0..MaxLines }

IsKey(l) == StartsWith(l, EXT_X_KEY)
IsMap(l) == StartsWith(l, EXT_X_MAP)
IsInfOrUri(l) == StartsWith(l, EXTINF) \/ ~StartsWith(l, HASH)

\* for i, l in enumerate(lines): if <test>: ... break -- the first of the
\* indices (from 1) whose line passes the test, 0 when the loop ends
\* without a break.
FirstIndex(hits) ==
    IF hits = {} THEN 0
    ELSE CHOOSE i \in hits : \A j \in hits : i <= j

KeyIndices(lines) == { i \in 1..Len(lines) : IsKey(lines[i]) }
MapIndices(lines) == { i \in 1..Len(lines) : IsMap(lines[i]) }
InfOrUriIndices(lines) == { i \in 1..Len(lines) : IsInfOrUri(lines[i]) }

\* lines.insert(i - 1, x), with i counted from 1
ListInsert(lines, i, x) == SubSeq(lines, 1, i - 1) \o <<x>> \o SubSeq(lines, i, Len(lines))

\* Mutant of InsertAt: one loop that stops at the first line that is a map
\* tag, a segment-info tag or not a comment.
InsertAtFirstOfAny(lines) ==
    LET any == FirstIndex(MapIndices(lines) \cup InfOrUriIndices(lines))
    IN IF any # 0 THEN any ELSE Len(lines) + 1

\* insert_at, the else branch of insert_ext_x_key, counted from 1
InsertAt(lines) ==
    LET map == FirstIndex(MapIndices(lines))
        inf == FirstIndex(InfOrUriIndices(lines))
    IN IF map # 0 THEN map
       ELSE IF inf # 0 THEN inf
       ELSE Len(lines) + 1

\* Mutant of insert_ext_x_key: the replacing loop is skipped, the tag is
\* always inserted.
insert_ext_x_key_always_insert(lines, key_line) ==
    ListInsert(lines, InsertAt(lines), key_line)

insert_ext_x_key(lines, key_line) ==
    LET k == FirstIndex(KeyIndices(lines))
    IN IF k # 0
       THEN [lines EXCEPT ![k] = key_line]
       ELSE ListInsert(lines, InsertAt(lines), key_line)

\* The key line of this run (no IV given: iv_bytes is None).
key_line == build_ext_x_key(key_uri, <<>>)

KeyIdle ==
    /\ klines = <<>> /\ kout = <<>> /\ kpc = "idle"

KeyInit ==
    /\ klines \in Playlists /\ kout = <<>> /\ kpc = "input"

\* lines = insert_ext_x_key(lines, key_line)
Rewrite ==
    /\ kpc = "input"
    /\ kout' = insert_ext_x_key(klines, key_line)
    /\ kpc' = "done"
    /\ UNCHANGED <<klines, evars, wvars, mvars>>

(***************************************************************************)
(* The watcher.  The packager (ffmpeg) writes, renames and deletes files   *)
(* under the source root while the program runs; the observer thread runs  *)
(* the handlers one event at a time; main enumerates the source root,      *)
(* starts the observer and, on a signal, runs _graceful_exit.              *)
(***************************************************************************)
\* The bounds of the exploration.
MaxOps == 2
MaxMtime == 2
MaxSize == 1
MaxTries == 2
MaxSegOps == 3

SEG == [dir |-> "", stem |-> "seg1", ext |-> ".m4s"]
PL  == [dir |-> "", stem |-> "index", ext |-> ".m3u8"]
IGN == [dir |-> "", stem |-> "seg1", ext |-> ".tmp"]
Paths == {SEG, PL, IGN}

\* A segment in a subdirectory of the source root.
SUB == [dir |-> "sub", stem |-> "seg2", ext |-> ".m4s"]
AllPaths == Paths \cup {SUB}

\* --exts, as main normalises the default
exts == {".m4s", ".mp4", ".cmf"}

\* --pattern: not given (pattern_re is None), or one of two regular
\* expressions, each a literal.
NoPattern == "None"
Patterns == {NoPattern, "seg", "index"}

\* bool(pattern_re.search(base)): the literal occurs in the basename
Search(pattern, path) ==
    CASE pattern = "seg" -> path.stem = "seg1"
      [] pattern = "index" -> path.stem = "index"
      [] OTHER -> FALSE

\* str.lower() on an extension
Lower(e) ==
    CASE e = ".M3U8" -> ".m3u8"
      [] e = ".M4S" -> ".m4s"
      [] e = ".MP4" -> ".mp4"
      [] OTHER -> e

_match_m3u8(path) == Lower(path.ext) = ".m3u8"

_match_segment(path) ==
    IF pattern_re # NoPattern
    THEN Search(pattern_re, path)
    ELSE Lower(path.ext) \in exts

\* dict and directory helpers
EmptyDict == [q \in {} |-> 0]
Put(f, p, v) == [q \in DOMAIN f \cup {p} |-> IF q = p THEN v ELSE f[q]]
Without(f, p) == [q \in DOMAIN f \ {p} |-> f[q]]

NoFile == [mtime |-> 0, size |-> 0]
NoCur == [path |-> IGN, kind |-> "none", last_size |-> -1, i |-> 0, opened |-> NoFile]
NoChk == [called |-> FALSE, path |-> IGN, known |-> FALSE, prev |-> 0, mtime |-> 0,
          ret |-> FALSE, ever |-> 0, since |-> 0]
NoneYet == [ever |-> 0, since |-> 0]
NoSw  == [called |-> FALSE, reads |-> <<>>, attempts |-> 0, sleeps |-> 0,
          ret |-> "none", vanished |-> FALSE]
NoObs == [task |-> "none", path |-> IGN, tracked |-> FALSE, done |-> FALSE,
          sawVanish |-> FALSE, encCalled |-> FALSE, errLogged |-> FALSE,
          raised |-> FALSE, cause |-> "none"]

Event(type, src_path, dest_path) ==
    [type |-> type, src_path |-> src_path, dest_path |-> dest_path]

\* Whether a system call fails with an I/O error.
Faults == IF faulty THEN BOOLEAN ELSE {FALSE}

\* The process is running: main has neither returned nor died.
Alive == mpc \notin {"exited", "crashed", "returned"}

pure == <<evars, kvars, cfgvars, mvars>>

(***************************************************************************)
(* The packager.  Events are delivered only while the observer runs.       *)
(***************************************************************************)
Emit(e) == queue' = IF observer = "running" THEN Append(queue, e) ELSE queue

EnvWrite ==
    /\ Alive /\ ops < MaxOps
    /\ \E p \in Paths, m \in 1..MaxMtime, s \in 0..MaxSize :
        /\ src' = Put(src, p, [mtime |-> m, size |-> s])
        /\ Emit(Event(IF p \in DOMAIN src THEN "modified" ELSE "created", p, p))
    /\ ops' = ops + 1
    /\ UNCHANGED <<dst, dstRoot, processed_mtime, stable_tries, observer, mpc, todo,
                   hpc, cur, histvars, startup, pure>>

EnvDelete ==
    /\ Alive /\ ops < MaxOps
    /\ \E p \in DOMAIN src :
        /\ src' = Without(src, p)
        /\ Emit(Event("deleted", p, p))
    /\ ops' = ops + 1
    /\ UNCHANGED <<dst, dstRoot, processed_mtime, stable_tries, observer, mpc, todo,
                   hpc, cur, histvars, startup, pure>>

EnvMove ==
    /\ Alive /\ ops < MaxOps
    /\ \E p \in DOMAIN src : \E q \in Paths \ {p} :
        /\ src' = Put(Without(src, p), q, src[p])
        /\ Emit(Event("moved", p, q))
    /\ ops' = ops + 1
    /\ UNCHANGED <<dst, dstRoot, processed_mtime, stable_tries, observer, mpc, todo,
                   hpc, cur, histvars, startup, pure>>

\* The packager as the mirror needs it: the modification time of a write is
\* the time of the write, later than every modification time before; no
\* operation falls between os.listdir and observer.start, where no event is
\* delivered; a file is renamed right after it has been written.
MirrorWrite ==
    /\ Alive /\ ops < MaxOps /\ mpc # "enumerate"
    /\ \E p \in AllPaths, s \in 0..MaxSize :
        /\ src' = Put(src, p, [mtime |-> ops + 1, size |-> s])
        /\ Emit(Event(IF p \in DOMAIN src THEN "modified" ELSE "created", p, p))
    /\ ops' = ops + 1
    /\ UNCHANGED <<dst, dstRoot, processed_mtime, stable_tries, observer, mpc, todo,
                   hpc, cur, histvars, startup, pure>>

MirrorDelete ==
    /\ Alive /\ ops < MaxOps /\ mpc # "enumerate"
    /\ \E p \in DOMAIN src :
        /\ src' = Without(src, p)
        /\ Emit(Event("deleted", p, p))
    /\ ops' = ops + 1
    /\ UNCHANGED <<dst, dstRoot, processed_mtime, stable_tries, observer, mpc, todo,
                   hpc, cur, histvars, startup, pure>>

MirrorMove ==
    /\ Alive /\ ops < MaxOps /\ mpc # "enumerate"
    /\ \E p \in DOMAIN src : \E q \in AllPaths \ {p} :
        /\ src[p].mtime = ops
        /\ src' = Put(Without(src, p), q, src[p])
        /\ Emit(Event("moved", p, q))
    /\ ops' = ops + 1
    /\ UNCHANGED <<dst, dstRoot, processed_mtime, stable_tries, observer, mpc, todo,
                   hpc, cur, histvars, startup, pure>>

\* The packager working on one segment only, for more operations.
SegWrite ==
    /\ Alive /\ ops < MaxSegOps
    /\ \E m \in 1..MaxMtime, s \in 0..MaxSize :
        /\ src' = Put(src, SEG, [mtime |-> m, size |-> s])
        /\ Emit(Event(IF SEG \in DOMAIN src THEN "modified" ELSE "created", SEG, SEG))
    /\ ops' = ops + 1
    /\ UNCHANGED <<dst, dstRoot, processed_mtime, stable_tries, observer, mpc, todo,
                   hpc, cur, histvars, startup, pure>>

SegDelete ==
    /\ Alive /\ ops < MaxSegOps
    /\ SEG \in DOMAIN src
    /\ src' = Without(src, SEG)
    /\ Emit(Event("deleted", SEG, SEG))
    /\ ops' = ops + 1
    /\ UNCHANGED <<dst, dstRoot, processed_mtime, stable_tries, observer, mpc, todo,
                   hpc, cur, histvars, startup, pure>>

(***************************************************************************)
(* HLSHandler: the start of a task.                                        *)
(***************************************************************************)
\* _process(path): the classification and the call of the pass.
StartProcess(path) ==
    /\ chk' = NoChk
    /\ sw' = NoSw
    /\ IF _match_m3u8(path)
       THEN /\ hpc' = "exists"
            /\ cur' = [NoCur EXCEPT !.path = path, !.kind = "m3u8"]
            /\ obs' = [NoObs EXCEPT !.task = "process", !.path = path]
       ELSE IF _match_segment(path)
       THEN /\ hpc' = "exists"
            /\ cur' = [NoCur EXCEPT !.path = path, !.kind = "segment"]
            /\ obs' = [NoObs EXCEPT !.task = "process", !.path = path]
       ELSE /\ hpc' = "idle"
            /\ cur' = NoCur
            /\ obs' = [NoObs EXCEPT !.task = "process", !.path = path, !.done = TRUE]

\* on_deleted(event)
StartDeleted(path) ==
    /\ chk' = NoChk
    /\ sw' = NoSw
    /\ IF _match_segment(path)
       THEN /\ hpc' = "del_exists"
            /\ cur' = [NoCur EXCEPT !.path = path, !.kind = "deleted"]
            /\ obs' = [NoObs EXCEPT !.task = "deleted", !.path = path,
                                    !.tracked = (path \in DOMAIN processed_mtime)]
       ELSE /\ hpc' = "idle"
            /\ cur' = NoCur
            /\ obs' = [NoObs EXCEPT !.task = "deleted", !.path = path, !.done = TRUE]

\* The observer thread takes the next event and calls its handler.
Dispatch ==
    /\ Alive
    /\ observer = "running"
    /\ hpc = "idle"
    /\ queue # <<>>
    /\ LET e == Head(queue)
       IN CASE e.type \in {"created", "modified"} -> StartProcess(e.src_path)
            [] e.type = "moved" -> StartProcess(e.dest_path)
            [] e.type = "deleted" -> StartDeleted(e.src_path)
    /\ queue' = Tail(queue)
    /\ UNCHANGED <<fsvars, processed_mtime, stable_tries, observer, mpc, todo, ops,
                   passes, nopass, startup, pure>>

Max(a, b) == IF a > b THEN a ELSE b

\* History: the pass for p at modification time m has failed or was skipped.
NoPass(p, m) ==
    nopass' = [nopass EXCEPT ![p] = [ever |-> Max(@.ever, m), since |-> Max(@.since, m)]]

\* The pass returns to its caller.
Return(o) ==
    /\ hpc' = "idle"
    /\ cur' = NoCur
    /\ obs' = [o EXCEPT !.done = TRUE]

\* An exception that no except clause of the handler catches leaves the
\* pass.  In the startup enumeration it leaves main, which ends the process;
\* in the observer thread it ends the thread's dispatch loop.
Raise(o) ==
    /\ hpc' = "idle"
    /\ cur' = NoCur
    /\ obs' = [o EXCEPT !.raised = TRUE]
    /\ IF mpc = "enumerate"
       THEN mpc' = "crashed" /\ UNCHANGED observer
       ELSE observer' = "dead" /\ UNCHANGED mpc

(***************************************************************************)
(* _process_m3u8 and _process_segment: the checks they share.              *)
(***************************************************************************)
\* if not os.path.exists(src_path): return
StepExists ==
    /\ Alive
    /\ hpc = "exists"
    /\ IF cur.path \in DOMAIN src
       THEN /\ hpc' = "should"
            /\ UNCHANGED <<cur, obs>>
       ELSE Return([obs EXCEPT !.sawVanish = TRUE])
    /\ UNCHANGED <<fsvars, processed_mtime, stable_tries, queue, observer, mpc, todo,
                   ops, passes, chk, sw, nopass, startup, pure>>

\* Mutant of AlreadyProcessed: no dedup, every event is a new try.
AlreadyProcessedNever(known, prev_mtime, mtime) == FALSE

\* Mutant of AlreadyProcessed: an equal modification time is let through.
AlreadyProcessedStrict(known, prev_mtime, mtime) == known /\ mtime < prev_mtime

\* prev is not None and mtime <= prev
AlreadyProcessed(known, prev_mtime, mtime) == known /\ mtime <= prev_mtime

\* if not self._should_process(src_path): return
StepShould ==
    /\ Alive
    /\ hpc = "should"
    /\ LET p == cur.path
           known == p \in DOMAIN processed_mtime
           prev_mtime == IF known THEN processed_mtime[p] ELSE 0
       IN IF p \notin DOMAIN src
          THEN \* os.path.getmtime raises FileNotFoundError
               /\ chk' = [NoChk EXCEPT !.called = TRUE, !.path = p, !.known = known,
                                       !.prev = prev_mtime]
               /\ Return([obs EXCEPT !.sawVanish = TRUE])
               /\ UNCHANGED <<processed_mtime, passes, sw, observer, mpc, nopass, startup>>
          ELSE \E oserror \in Faults :
               IF oserror
               THEN \* os.path.getmtime raises another OSError (EACCES, EIO):
                    \* except FileNotFoundError does not catch it
                    /\ chk' = [NoChk EXCEPT !.called = TRUE, !.path = p,
                                            !.known = known, !.prev = prev_mtime]
                    /\ Raise(obs)
                    /\ UNCHANGED <<processed_mtime, passes, sw, nopass, startup>>
               ELSE
               LET mtime == src[p].mtime
               IN IF AlreadyProcessed(known, prev_mtime, mtime)
                  THEN /\ chk' = [called |-> TRUE, path |-> p, known |-> known,
                                  prev |-> prev_mtime, mtime |-> mtime, ret |-> FALSE,
                                  ever |-> nopass[p].ever, since |-> nopass[p].since]
                       /\ NoPass(p, mtime)
                       /\ Return(obs)
                       /\ UNCHANGED <<processed_mtime, passes, sw, observer, mpc, startup>>
                  ELSE /\ chk' = [called |-> TRUE, path |-> p, known |-> known,
                                  prev |-> prev_mtime, mtime |-> mtime, ret |-> TRUE,
                                  ever |-> nopass[p].ever, since |-> nopass[p].since]
                       /\ processed_mtime' = Put(processed_mtime, p, mtime)
                       /\ passes' = [passes EXCEPT ![p] = Append(@, mtime)]
                       /\ startup' = IF observer = "unstarted"
                                     THEN [startup EXCEPT ![p] = mtime]
                                     ELSE IF mtime > startup[p]
                                          THEN [startup EXCEPT ![p] = 0]
                                          ELSE startup
                       /\ hpc' = IF cur.kind = "segment" THEN "stable" ELSE "m_makedirs"
                       /\ sw' = IF cur.kind = "segment"
                                THEN [NoSw EXCEPT !.called = TRUE] ELSE sw
                       /\ UNCHANGED <<cur, obs, observer, mpc, nopass>>
    /\ UNCHANGED <<fsvars, stable_tries, queue, todo, ops, pure>>

(***************************************************************************)
(* _stable_wait: one iteration of its loop per step; the sleep is the      *)
(* time between two steps.                                                 *)
(***************************************************************************)
\* Mutant of SameSize: the first read already counts as unchanged.
SameSizeOrFirst(size, last_size) == size = last_size \/ last_size = -1

\* size == last_size
SameSize(size, last_size) == size = last_size

\* Mutant of AfterStableWait: a segment that is not stable is given up.
AfterStableWaitAbort(stable) == IF stable THEN "makedirs" ELSE "idle"

\* if not stable: logging.warning(...); then, stable or not, encrypt_file
AfterStableWait(stable) == "makedirs"

StepStable ==
    /\ Alive
    /\ hpc = "stable"
    /\ cur.i < stable_tries
    /\ LET p == cur.path
       IN IF p \notin DOMAIN src
          THEN \* os.path.getsize raises FileNotFoundError: return False
               /\ sw' = [sw EXCEPT !.attempts = @ + 1, !.ret = "false", !.vanished = TRUE]
               /\ obs' = [obs EXCEPT !.sawVanish = TRUE]
               /\ hpc' = AfterStableWait(FALSE)
               /\ UNCHANGED cur
          ELSE LET size == src[p].size
               IN IF SameSize(size, cur.last_size)
                  THEN /\ sw' = [sw EXCEPT !.attempts = @ + 1, !.ret = "true",
                                           !.reads = Append(@, size)]
                       /\ hpc' = AfterStableWait(TRUE)
                       /\ UNCHANGED <<cur, obs>>
                  ELSE /\ cur' = [cur EXCEPT !.last_size = size, !.i = @ + 1]
                       /\ sw' = [sw EXCEPT !.attempts = @ + 1, !.sleeps = @ + 1,
                                           !.reads = Append(@, size),
                                           !.ret = IF cur.i + 1 = stable_tries
                                                   THEN "false" ELSE "none"]
                       /\ hpc' = IF cur.i + 1 = stable_tries
                                 THEN AfterStableWait(FALSE) ELSE "stable"
                       /\ UNCHANGED obs
    /\ UNCHANGED <<fsvars, processed_mtime, stable_tries, queue, observer, mpc, todo,
                   ops, passes, chk, nopass, startup, pure>>

(***************************************************************************)
(* _process_segment from the call of encrypt_file on.  Stable or not, the  *)
(* pass goes on.                                                           *)
(***************************************************************************)
\* encrypt_file: AES.new and os.makedirs(os.path.dirname(out_path), exist_ok=True)
StepMakedirs ==
    /\ Alive
    /\ hpc = "makedirs"
    /\ \E oserror \in Faults :
        IF oserror
        THEN \* caught by the except Exception of _process_segment and logged
             /\ Return([obs EXCEPT !.encCalled = TRUE, !.errLogged = TRUE,
                                 !.cause = "oserror"])
             /\ NoPass(cur.path, chk.mtime)
             /\ UNCHANGED dstRoot
        ELSE /\ dstRoot' = TRUE
             /\ obs' = [obs EXCEPT !.encCalled = TRUE]
             /\ hpc' = "open"
             /\ UNCHANGED <<cur, nopass>>
    /\ UNCHANGED <<src, dst, processed_mtime, stable_tries, queue, observer, mpc, todo,
                   ops, passes, chk, sw, startup, pure>>

\* with open(in_path, "rb") as fin, open(out_path, "wb") as fout
StepOpen ==
    /\ Alive
    /\ hpc = "open"
    /\ LET p == cur.path
       IN IF p \notin DOMAIN src \/ ~dstRoot
          THEN \* FileNotFoundError, caught by _process_segment and logged
               /\ Return([obs EXCEPT !.errLogged = TRUE,
                                   !.cause = IF p \notin DOMAIN src
                                             THEN "vanished" ELSE "nodir"])
               /\ NoPass(p, chk.mtime)
               /\ UNCHANGED dst
          ELSE /\ dst' = Put(dst, p, [complete |-> FALSE, mtime |-> 0, size |-> 0])
               /\ cur' = [cur EXCEPT !.opened = src[p]]
               /\ hpc' = "write"
               /\ UNCHANGED <<obs, nopass>>
    /\ UNCHANGED <<src, dstRoot, processed_mtime, stable_tries, queue, observer, mpc,
                   todo, ops, passes, chk, sw, startup, pure>>

\* The read, encrypt and write loop of encrypt_file, to its end or to an
\* I/O error.  A file deleted while open is read from the open descriptor;
\* output written to a file that has been unlinked is not visible.
StepWrite ==
    /\ Alive
    /\ hpc = "write"
    /\ LET p == cur.path
           content == IF p \in DOMAIN src THEN src[p] ELSE cur.opened
       IN \E oserror \in Faults :
            IF ~oserror
            THEN /\ dst' = IF p \in DOMAIN dst
                           THEN Put(dst, p, [complete |-> TRUE, mtime |-> content.mtime,
                                             size |-> content.size])
                           ELSE dst
                 /\ Return(obs)
                 /\ UNCHANGED nopass
            ELSE /\ Return([obs EXCEPT !.errLogged = TRUE, !.cause = "oserror"])
                 /\ NoPass(p, chk.mtime)
                 /\ UNCHANGED dst
    /\ UNCHANGED <<src, dstRoot, processed_mtime, stable_tries, queue, observer, mpc,
                   todo, ops, passes, chk, sw, startup, pure>>

(***************************************************************************)
(* _process_m3u8 after the dedup check.                                    *)
(***************************************************************************)
\* os.makedirs(os.path.dirname(dst_path), exist_ok=True), before the try
StepM3u8Makedirs ==
    /\ Alive
    /\ hpc = "m_makedirs"
    /\ \E oserror \in Faults :
        IF oserror
        THEN /\ Raise(obs)
             /\ NoPass(cur.path, chk.mtime)
             /\ UNCHANGED dstRoot
        ELSE /\ dstRoot' = TRUE
             /\ hpc' = "m_read"
             /\ UNCHANGED <<cur, obs, observer, mpc, nopass>>
    /\ UNCHANGED <<src, dst, processed_mtime, stable_tries, queue, todo, ops, passes,
                   chk, sw, startup, pure>>

\* with open(src_path) as f: lines = f.readlines(); insert_ext_x_key
StepM3u8Read ==
    /\ Alive
    /\ hpc = "m_read"
    /\ \E oserror \in Faults :
       IF cur.path \notin DOMAIN src \/ oserror
       THEN \* caught by the except Exception of _process_m3u8 and logged
            /\ Return([obs EXCEPT !.errLogged = TRUE])
            /\ NoPass(cur.path, chk.mtime)
       ELSE /\ cur' = [cur EXCEPT !.opened = src[cur.path]]
            /\ hpc' = "m_write"
            /\ UNCHANGED <<obs, nopass>>
    /\ UNCHANGED <<fsvars, processed_mtime, stable_tries, queue, observer, mpc, todo,
                   ops, passes, chk, sw, startup, pure>>

\* with open(dst_path, "w") as f: f.writelines(lines)
StepM3u8Write ==
    /\ Alive
    /\ hpc = "m_write"
    /\ IF ~dstRoot
       THEN /\ Return([obs EXCEPT !.errLogged = TRUE])
            /\ NoPass(cur.path, chk.mtime)
            /\ UNCHANGED dst
       ELSE \E oserror \in Faults :
            IF oserror
            THEN \* f.writelines fails: the file opened with "w" stays as it is
                 /\ dst' = Put(dst, cur.path, [complete |-> FALSE, mtime |-> 0,
                                               size |-> 0])
                 /\ Return([obs EXCEPT !.errLogged = TRUE])
                 /\ NoPass(cur.path, chk.mtime)
            ELSE /\ dst' = Put(dst, cur.path, [complete |-> TRUE,
                                               mtime |-> cur.opened.mtime,
                                               size |-> cur.opened.size])
                 /\ Return(obs)
                 /\ UNCHANGED nopass
    /\ UNCHANGED <<src, dstRoot, processed_mtime, stable_tries, queue, observer, mpc,
                   todo, ops, passes, chk, sw, startup, pure>>

(***************************************************************************)
(* _delete_mirror_path                                                     *)
(***************************************************************************)
\* if os.path.exists(dst_path):
StepDelExists ==
    /\ Alive
    /\ hpc = "del_exists"
    /\ IF cur.path \in DOMAIN dst
       THEN /\ hpc' = "del_remove"
            /\ UNCHANGED <<cur, obs>>
       ELSE Return(obs)
    /\ UNCHANGED <<fsvars, processed_mtime, stable_tries, queue, observer, mpc, todo,
                   ops, passes, chk, sw, nopass, startup, pure>>

\* os.remove(dst_path); self._processed_mtime.pop(src_path, None)
StepDelRemove ==
    /\ Alive
    /\ hpc = "del_remove"
    /\ LET p == cur.path
       IN IF p \in DOMAIN dst
          THEN /\ dst' = Without(dst, p)
               /\ processed_mtime' = Without(processed_mtime, p)
               /\ passes' = [passes EXCEPT ![p] = <<>>]
               /\ nopass' = [nopass EXCEPT ![p].since = 0]
               /\ startup' = [startup EXCEPT ![p] = 0]
               /\ Return(obs)
          ELSE \* removed in between: FileNotFoundError, caught and logged
               /\ Return([obs EXCEPT !.errLogged = TRUE])
               /\ UNCHANGED <<dst, processed_mtime, passes, nopass, startup>>
    /\ UNCHANGED <<src, dstRoot, stable_tries, queue, observer, mpc, todo, ops, chk, sw,
                   pure>>

(***************************************************************************)
(* main                                                                    *)
(***************************************************************************)
\* os.listdir(src): the files directly in the source root (a subdirectory
\* is an entry too, one that _process ignores)
MainListdir ==
    /\ mpc = "listdir"
    /\ todo' = {p \in DOMAIN src : p.dir = ""}
    /\ mpc' = "enumerate"
    /\ UNCHANGED <<fsvars, processed_mtime, stable_tries, queue, observer, hpc, cur, ops,
                   histvars, startup, pure>>

\* for file_path in os.listdir(src): handler._process(src + "/" + file_path)
MainEnumerate ==
    /\ mpc = "enumerate"
    /\ hpc = "idle"
    /\ \E p \in todo :
        /\ todo' = todo \ {p}
        /\ StartProcess(p)
    /\ UNCHANGED <<fsvars, processed_mtime, stable_tries, queue, observer, mpc, ops,
                   passes, nopass, startup, pure>>

\* Mutant of MainStart: the observer is started while entries of the
\* enumeration are still to be processed.
MainStartEarly ==
    /\ mpc = "enumerate"
    /\ hpc = "idle"
    /\ observer' = "running"
    /\ mpc' = "watching"
    /\ UNCHANGED <<fsvars, processed_mtime, stable_tries, queue, todo, hpc, cur, ops,
                   histvars, startup, pure>>

\* observer.schedule(...); observer.start(); signal.signal(SIGTERM, ...)
MainStart ==
    /\ mpc = "enumerate"
    /\ hpc = "idle"
    /\ todo = {}
    /\ observer' = "running"
    /\ mpc' = "watching"
    /\ UNCHANGED <<fsvars, processed_mtime, stable_tries, queue, todo, hpc, cur, ops,
                   histvars, startup, pure>>

\* while observer.is_alive() ends because the observer thread has died;
\* observer.join() returns at once and main returns.
MainObserverDied ==
    /\ mpc = "watching"
    /\ observer = "dead"
    /\ mpc' = "returned"
    /\ UNCHANGED <<fsvars, processed_mtime, stable_tries, queue, observer, todo, hpc, cur,
                   ops, histvars, startup, pure>>

\* SIGTERM or KeyboardInterrupt while main sleeps: _graceful_exit is entered.
Signal ==
    /\ mpc = "watching"
    /\ mpc' = "rmtree"
    /\ UNCHANGED <<fsvars, processed_mtime, stable_tries, queue, observer, todo, hpc, cur,
                   ops, histvars, startup, pure>>

\* shutil.rmtree(dst, ignore_errors=True)
MainRmtree ==
    /\ mpc = "rmtree"
    /\ dst' = EmptyDict
    /\ dstRoot' = FALSE
    /\ mpc' = "mkdir"
    /\ UNCHANGED <<src, processed_mtime, stable_tries, queue, observer, todo, hpc, cur,
                   ops, histvars, startup, pure>>

\* os.mkdir(dst): FileExistsError when a handler has made the directory
\* again; the exception leaves _graceful_exit and ends main, and with it
\* the process (the observer is a daemon thread).
MainMkdir ==
    /\ mpc = "mkdir"
    /\ IF dstRoot
       THEN mpc' = "crashed" /\ UNCHANGED dstRoot
       ELSE mpc' = "stop" /\ dstRoot' = TRUE
    /\ UNCHANGED <<src, dst, processed_mtime, stable_tries, queue, observer, todo, hpc,
                   cur, ops, histvars, startup, pure>>

\* observer.stop()
MainStop ==
    /\ mpc = "stop"
    /\ observer' = "stopped"
    /\ mpc' = "join"
    /\ UNCHANGED <<fsvars, processed_mtime, stable_tries, queue, todo, hpc, cur, ops,
                   histvars, startup, pure>>

\* observer.join(): the observer thread ends once the handler it is running
\* has returned; main returns.
MainJoin ==
    /\ mpc = "join"
    /\ hpc = "idle"
    /\ mpc' = "exited"
    /\ UNCHANGED <<fsvars, processed_mtime, stable_tries, queue, observer, todo, hpc,
                   cur, ops, histvars, startup, pure>>

WatcherIdle ==
    /\ src = EmptyDict /\ dst = EmptyDict /\ dstRoot = FALSE
    /\ processed_mtime = EmptyDict /\ stable_tries = 1 /\ pattern_re = NoPattern
    /\ faulty = FALSE
    /\ queue = <<>> /\ observer = "unstarted" /\ mpc = "exited" /\ todo = {}
    /\ hpc = "idle" /\ cur = NoCur /\ ops = 0
    /\ passes = [p \in AllPaths |-> <<>>] /\ chk = NoChk /\ sw = NoSw /\ obs = NoObs
    /\ nopass = [p \in AllPaths |-> NoneYet] /\ startup = [p \in AllPaths |-> 0]

\* HLSHandler.__init__ has run; main is about to list the source root.
WatcherStart(patterns, faults) ==
    /\ src = EmptyDict /\ dst = EmptyDict /\ dstRoot = FALSE
    /\ processed_mtime = EmptyDict /\ stable_tries \in 1..MaxTries
    /\ pattern_re \in patterns /\ faulty \in faults
    /\ queue = <<>> /\ observer = "unstarted" /\ mpc = "listdir" /\ todo = {}
    /\ hpc = "idle" /\ cur = NoCur /\ ops = 0
    /\ passes = [p \in AllPaths |-> <<>>] /\ chk = NoChk /\ sw = NoSw /\ obs = NoObs
    /\ nopass = [p \in AllPaths |-> NoneYet] /\ startup = [p \in AllPaths |-> 0]

\* The program started without --pattern.
WatcherInit == WatcherStart({NoPattern}, {TRUE})

vars == <<evars, kvars, wvars, mvars>>

(***************************************************************************)
(* main: the resolution of the key material (parse_iv, read_key_file).     *)
(* A string is a tuple of one-character strings, a key a tuple of bytes.   *)
(***************************************************************************)
MaxIvLen == 34
MaxKeyLen == 18

Whitespace == {" "}
HexDigits == {"0", "a", "F"}

\* the value of a hexadecimal digit
HexValue(c) ==
    CASE c = "0" -> 0
      [] c = "a" -> 10
      [] c = "F" -> 15

\* str.lower() on a character
LowerChar(c) ==
    CASE c = "X" -> "x"
      [] c = "F" -> "f"
      [] OTHER -> c

\* str.strip()
RECURSIVE LStrip(_)
LStrip(s) ==
    IF s # <<>> /\ Head(s) \in Whitespace THEN LStrip(Tail(s)) ELSE s

RECURSIVE RStrip(_)
RStrip(s) ==
    IF s # <<>> /\ s[Len(s)] \in Whitespace THEN RStrip(Take(s, Len(s) - 1)) ELSE s

Strip(s) == RStrip(LStrip(s))

\* bytes.fromhex: whitespace is skipped before each byte; a byte is two
\* adjacent hexadecimal digits; anything else is a ValueError.
RECURSIVE FromHex(_)
FromHex(s) ==
    IF s = <<>> THEN [ok |-> TRUE, bytes |-> <<>>]
    ELSE IF Head(s) \in Whitespace THEN FromHex(Tail(s))
    ELSE IF Len(s) >= 2 /\ s[1] \in HexDigits /\ s[2] \in HexDigits
    THEN LET r == FromHex(Drop(s, 2))
         IN [ok |-> r.ok, bytes |-> <<16 * HexValue(s[1]) + HexValue(s[2])>> \o r.bytes]
    ELSE [ok |-> FALSE, bytes |-> <<>>]

\* s = iv_str.strip(); if s.lower().startswith("0x"): s = s[2:]
IvDigits(str) ==
    LET s == Strip(str)
    IN IF Len(s) >= 2 /\ LowerChar(s[1]) = "0" /\ LowerChar(s[2]) = "x"
       THEN Drop(s, 2) ELSE s

\* parse_iv: ok is FALSE where it raises ValueError
parse_iv(str) ==
    LET s == IvDigits(str)
    IN IF Len(s) # 32 THEN [ok |-> FALSE, bytes |-> <<>>] ELSE FromHex(s)

\* key[:16].ljust(16, b"\x00")
read_key_file(key) ==
    LET head == Take(key, Min(16, Len(key)))
    IN head \o [i \in 1..(16 - Len(head)) |-> 0]

\* The IV strings: an optional prefix, then a run of the digit a in which
\* two places, among the first four and the last, hold any character.
IvChars == {"0", "a", "F", "g", "x", " "}
IvPrefixes == {<<>>, <<"0", "x">>, <<"0", "X">>, <<" ", "0", "x">>}
IvBody(n, i, c, j, d) ==
    [k \in 1..n |-> IF k = i THEN c ELSE IF k = j THEN d ELSE "a"]
IvBodies(n) ==
    {IvBody(n, i, c, j, d) : i \in 1..3, j \in {4, n}, c \in IvChars, d \in IvChars}
IvStrings ==
    {pre \o b : pre \in IvPrefixes, b \in UNION {IvBodies(n) : n \in 0..MaxIvLen}}

\* The key files: up to MaxKeyLen bytes, none of them zero.
KeyFiles == {[k \in 1..n |-> 200 + k] : n \in 0..MaxKeyLen}

NoIv == [present |-> FALSE, bytes |-> <<>>]

MatIdle ==
    /\ iv_str = <<>> /\ key_raw = <<>> /\ iv_res = NoIv /\ key_res = <<>>
    /\ rpc = "idle"

\* The arguments are parsed: the key URI and the key file are given.
MatInit ==
    /\ iv_str \in IvStrings /\ key_raw = <<>> /\ iv_res = NoIv /\ key_res = <<>>
    /\ rpc = "args"

\* if args.key_iv: iv_bytes = parse_iv(args.key_iv)
ResolveIv ==
    /\ rpc = "args"
    /\ IF iv_str = <<>>
       THEN iv_res' = NoIv /\ rpc' = "iv"
       ELSE LET r == parse_iv(iv_str)
            IN IF r.ok
               THEN iv_res' = [present |-> TRUE, bytes |-> r.bytes] /\ rpc' = "iv"
               ELSE iv_res' = NoIv /\ rpc' = "error"
    /\ UNCHANGED <<iv_str, key_raw, key_res, evars, kvars, wvars>>

\* key_bytes = read_key_file(key_file): the file is read, then normalised
ResolveKey ==
    /\ rpc = "iv"
    /\ key_raw' \in KeyFiles
    /\ key_res' = read_key_file(key_raw')
    /\ rpc' = "done"
    /\ UNCHANGED <<iv_str, iv_res, evars, kvars, wvars>>

(***************************************************************************)
(* The specifications.                                                     *)
(***************************************************************************)
InitEncrypt == EncInit /\ KeyIdle /\ WatcherIdle /\ MatIdle

NextEncrypt == EncRead \/ EncEof

SpecEncrypt == InitEncrypt /\ [][NextEncrypt]_vars

InitPlaylist == KeyInit /\ EncIdle /\ WatcherIdle /\ MatIdle

NextPlaylist == Rewrite

SpecPlaylist == InitPlaylist /\ [][NextPlaylist]_vars

Init == WatcherInit /\ EncIdle /\ KeyIdle /\ MatIdle

Next ==
    \/ EnvWrite \/ EnvDelete \/ EnvMove
    \/ MainListdir \/ MainEnumerate \/ MainStart \/ MainObserverDied
    \/ Dispatch
    \/ StepExists \/ StepShould \/ StepStable
    \/ StepMakedirs \/ StepOpen \/ StepWrite
    \/ StepM3u8Makedirs \/ StepM3u8Read \/ StepM3u8Write
    \/ StepDelExists \/ StepDelRemove

\* The watcher as long as no signal arrives.
Spec == Init /\ [][Next]_vars

NextShutdown ==
    \/ Next
    \/ Signal \/ MainRmtree \/ MainMkdir \/ MainStop \/ MainJoin

\* The watcher with a termination signal at any moment of the watch loop.
SpecShutdown == Init /\ [][NextShutdown]_vars

NextSegment ==
    \/ SegWrite \/ SegDelete
    \/ MainListdir \/ MainEnumerate \/ MainStart \/ MainObserverDied
    \/ Dispatch
    \/ StepExists \/ StepShould \/ StepStable
    \/ StepMakedirs \/ StepOpen \/ StepWrite
    \/ StepDelExists \/ StepDelRemove

\* The watcher while the packager writes and deletes one segment.
SpecSegment == Init /\ [][NextSegment]_vars

InitPattern == WatcherStart(Patterns, {TRUE}) /\ EncIdle /\ KeyIdle /\ MatIdle

InitMirror == WatcherStart({NoPattern}, {FALSE}) /\ EncIdle /\ KeyIdle /\ MatIdle

NextMirror ==
    \/ MirrorWrite \/ MirrorDelete \/ MirrorMove
    \/ MainListdir \/ MainEnumerate \/ MainStart
    \/ Dispatch
    \/ StepExists \/ StepShould \/ StepStable
    \/ StepMakedirs \/ StepOpen \/ StepWrite
    \/ StepM3u8Makedirs \/ StepM3u8Read \/ StepM3u8Write
    \/ StepDelExists \/ StepDelRemove

\* The watcher with a packager whose writes have increasing modification
\* times and are all followed by an event, and without I/O errors.
SpecMirror == InitMirror /\ [][NextMirror]_vars

InitMaterial == MatInit /\ EncIdle /\ KeyIdle /\ WatcherIdle

NextMaterial == ResolveIv \/ ResolveKey

\* The resolution of the key material over every IV string and key file.
SpecMaterial == InitMaterial /\ [][NextMaterial]_vars

\* The watcher started with or without --pattern.
SpecPattern == InitPattern /\ [][Next]_vars

(***************************************************************************)
(* Claims about encrypt_file, checked under SpecEncrypt.                   *)
(***************************************************************************)
RECURSIVE Concat(_)
Concat(ss) == IF ss = <<>> THEN <<>> ELSE Head(ss) \o Concat(Tail(ss))

\* The inverse of the block permutation and of the chaining, for the round trip.
BlockDecrypt(c) == [j \in 1..BLOCKSIZE |-> (205 * (c[j] + 512 - key_bytes[j] - j)) % 256]
SubBlock(a, b) == [j \in 1..BLOCKSIZE |-> (a[j] + 256 - b[j]) % 256]

\* Standard CBC decryption of a whole ciphertext.
RECURSIVE CbcDecrypt(_, _)
CbcDecrypt(ch, ct) ==
    IF Len(ct) < BLOCKSIZE THEN <<>>
    ELSE LET c == Take(ct, BLOCKSIZE)
         IN SubBlock(BlockDecrypt(c), ch) \o CbcDecrypt(c, Drop(ct, BLOCKSIZE))

\* PKCS#7 unpadding: drop as many bytes as the last byte says.
Unpad(s) == IF Len(s) = 0 THEN s ELSE Take(s, Len(s) - s[Len(s)])

\* PKCS#7 as the standard states it: n bytes of value n, n = 16 - (len mod 16).
Pkcs7(s) == s \o [i \in 1..(16 - (Len(s) % 16)) |-> 16 - (Len(s) % 16)]

\* The ciphertext of one cipher.encrypt call on the whole padded buffer.
WholeBufferCiphertext(s) == CbcOut(iv_bytes, Pkcs7(s))

\* C3: whatever the chunking, only block-aligned data is submitted to the
\* cipher, the carried remainder is 0..15 bytes, what has been submitted plus
\* the remainder is what has been read, and at the end everything submitted is
\* the plaintext followed by its PKCS#7 padding, so that the ciphertext is the
\* one of a single whole-buffer encryption.
C3_ChunkingNotObservable ==
    /\ epc # "error"
    /\ \A i \in 1..Len(calls) : Len(calls[i]) > 0 /\ Len(calls[i]) % 16 = 0
    /\ Len(prev) \in 0..15
    /\ epc = "loop" => Concat(calls) \o prev = SubSeq(plain, 1, fpos)
    /\ epc = "done" =>
        /\ Concat(calls) = Pkcs7(plain)
        /\ fout = WholeBufferCiphertext(plain)

\* C3 witness: a plaintext of more than two blocks encrypted to the end in
\* more cipher calls than a whole-buffer read makes, a remainder carried.
C3_Witness ==
    /\ epc = "done"
    /\ Len(plain) > 2 * BLOCKSIZE
    /\ Len(plain) % BLOCKSIZE # 0
    /\ Len(calls) = 3

\* C4: for a source of n bytes the pad length is 16 - (n mod 16), in 1..16,
\* every pad byte has that value, the output is 16 * (n div 16 + 1) bytes
\* long, and decrypting and unpadding the output gives back the n bytes.
C4_PaddedBlockAlwaysWritten ==
    epc = "done" =>
        LET n == Len(plain)
            pad == 16 - (n % 16)
            fed == Concat(calls)
        IN /\ pad \in 1..16
           /\ Len(fed) = n + pad
           /\ \A i \in (n + 1)..Len(fed) : fed[i] = pad
           /\ Len(fout) = 16 * ((n \div 16) + 1)
           /\ Unpad(CbcDecrypt(iv_bytes, fout)) = plain

\* C4 witness: a source of exactly one block yields two blocks, the second
\* one all padding.
C4_Witness ==
    /\ epc = "done"
    /\ Len(plain) = BLOCKSIZE
    /\ Len(fout) = 2 * BLOCKSIZE

(***************************************************************************)
(* Claims about insert_ext_x_key, checked under SpecPlaylist.              *)
(***************************************************************************)
KeyLinesOf(lines) == { i \in 1..Len(lines) : StartsWith(lines[i], EXT_X_KEY) }

\* C5: the output holds exactly one line starting with #EXT-X-KEY, the new
\* key line, whatever the input (several key lines included).
C5_ExactlyOneKeyLine ==
    kpc = "done" =>
        /\ Cardinality(KeyLinesOf(kout)) = 1
        /\ \A i \in KeyLinesOf(kout) : kout[i] = key_line

\* C6: without a key line in the input, the key line is inserted once: before
\* the first #EXT-X-MAP line if there is one (whatever comes earlier), else
\* before the first line that starts with #EXTINF or does not start with '#',
\* else at the end; the original lines are unchanged and in order.
C6_InsertionPoint ==
    (kpc = "done" /\ KeyLinesOf(klines) = {}) =>
        /\ Len(kout) = Len(klines) + 1
        /\ \E j \in 1..Len(kout) :
            /\ kout[j] = key_line
            /\ \A i \in 1..(j - 1) : kout[i] = klines[i]
            /\ \A i \in (j + 1)..Len(kout) : kout[i] = klines[i - 1]
            /\ \A i \in 1..(j - 1) : ~StartsWith(klines[i], EXT_X_MAP)
            /\ IF \E i \in 1..Len(klines) : StartsWith(klines[i], EXT_X_MAP)
               THEN StartsWith(kout[j + 1], EXT_X_MAP)
               ELSE /\ \A i \in 1..(j - 1) :
                        /\ ~StartsWith(klines[i], EXTINF)
                        /\ StartsWith(klines[i], HASH)
                    /\ j <= Len(klines) =>
                        \/ StartsWith(kout[j + 1], EXTINF)
                        \/ ~StartsWith(kout[j + 1], HASH)

\* C6 witness: a playlist without a key line whose #EXTINF (or segment) line
\* comes before its #EXT-X-MAP line; the key line went before the map line.
C6_Witness ==
    /\ kpc = "done"
    /\ KeyLinesOf(klines) = {}
    /\ \E i, j \in 1..Len(klines) :
        /\ i < j
        /\ StartsWith(klines[i], EXTINF)
        /\ StartsWith(klines[j], EXT_X_MAP)
        /\ kout[j] = key_line

\* C7: with a key line in the input, only the first such line is replaced by
\* the new key line: same number of lines, every other line as it was.
C7_ReplaceInPlace ==
    (kpc = "done" /\ KeyLinesOf(klines) # {}) =>
        /\ Len(kout) = Len(klines)
        /\ \E k \in KeyLinesOf(klines) :
            /\ \A i \in KeyLinesOf(klines) : k <= i
            /\ kout[k] = key_line
            /\ \A i \in 1..Len(klines) : i # k => kout[i] = klines[i]

\* C7 witness: a key line that was not the first line has been replaced.
C7_Witness ==
    /\ kpc = "done"
    /\ \E k \in KeyLinesOf(klines) :
        /\ k > 1
        /\ klines[k] # key_line
        /\ kout[k] = key_line
        /\ Len(kout) = Len(klines)

(***************************************************************************)
(* Claims about the watcher, checked under Spec (C10: SpecShutdown).       *)
(***************************************************************************)
StrictlyIncreasing(seq) == \A i \in 1..(Len(seq) - 1) : seq[i] < seq[i + 1]

\* C1: an event whose path reaches the dedup check with the file present
\* triggers a pass if and only if the path has no entry or its modification
\* time is strictly greater than the stored one, and the stored time becomes
\* the new one exactly then; the passes of a path are at strictly increasing
\* modification times (one pass for equal times, the stored time never
\* decreases) for as long as its entry exists.
C1_DedupByMtime ==
    /\ \A p \in Paths :
        /\ (p \in DOMAIN processed_mtime) <=> (passes[p] # <<>>)
        /\ p \in DOMAIN processed_mtime =>
             processed_mtime[p] = passes[p][Len(passes[p])]
        /\ StrictlyIncreasing(passes[p])
    /\ (chk.called /\ chk.mtime > 0) =>
        /\ chk.ret <=> (~chk.known \/ chk.mtime > chk.prev)
        /\ chk.ret => /\ chk.path \in DOMAIN processed_mtime
                      /\ processed_mtime[chk.path] = chk.mtime
        /\ ~chk.ret => /\ chk.path \in DOMAIN processed_mtime
                       /\ processed_mtime[chk.path] = chk.prev

\* C1 witness: a second event for a path found the modification time equal
\* to the stored one and was skipped: one pass for the two events.
C1_Witness ==
    /\ chk.called /\ chk.known /\ ~chk.ret
    /\ chk.mtime = chk.prev
    /\ Len(passes[chk.path]) = 1
    /\ hpc = "idle"

\* C2: once the deleted event of a tracked segment (one with a dedup entry,
\* whatever its last pass came to) has been handled, the segment has neither
\* a mirrored file nor a dedup entry.
C2_DeleteClearsTrackedSegment ==
    (obs.task = "deleted" /\ obs.done /\ obs.tracked) =>
        /\ obs.path \notin DOMAIN dst
        /\ obs.path \notin DOMAIN processed_mtime

\* C8: _stable_wait returns True only after two consecutive equal size
\* reads; it reads the size at most stable_tries times and returns False when
\* they are used up without two equal consecutive sizes (never True with one
\* try); when a read finds the file gone it returns False at once, without
\* a sleep after that read and without another read.
C8_StabilityDetector ==
    sw.called =>
        LET n == Len(sw.reads)
        IN /\ sw.attempts <= stable_tries
           /\ sw.ret = "none" <=> hpc = "stable"
           /\ sw.ret = "true" =>
                /\ ~sw.vanished
                /\ n >= 2
                /\ sw.reads[n] = sw.reads[n - 1]
                /\ sw.attempts = n
           /\ (sw.ret = "false" /\ ~sw.vanished) =>
                /\ sw.attempts = stable_tries
                /\ n = stable_tries
                /\ \A i \in 1..(n - 1) : sw.reads[i] # sw.reads[i + 1]
           /\ stable_tries = 1 => sw.ret # "true"
           /\ sw.vanished =>
                /\ sw.ret = "false"
                /\ sw.attempts = n + 1
                /\ sw.sleeps = n
                /\ \A i \in 1..(n - 1) : sw.reads[i] # sw.reads[i + 1]

\* C8 witness: the detector has returned True on its second read.
C8_Witness ==
    /\ sw.called
    /\ sw.ret = "true"
    /\ Len(sw.reads) = 2
    /\ sw.sleeps = 1

\* C9: a pass that found its source file gone (at the existence check, at
\* the dedup check or while polling for stability) attempts no encryption
\* and logs no error.
C9_VanishedIsBenignSkip ==
    obs.sawVanish => (~obs.encCalled /\ ~obs.errLogged)

\* C10: when the program has exited after a termination signal, the
\* destination root exists and is empty.
C10_ExitLeavesEmptyDestination ==
    mpc = "exited" => (dstRoot /\ DOMAIN dst = {})

(***************************************************************************)
(* Claims about errors, classification and retries.                        *)
(***************************************************************************)
\* C11: no per-file error (a failing modification-time read, destination
\* directory creation, source read or destination write, of a playlist or
\* of a segment) ends the startup enumeration or the watch loop: no
\* exception leaves a pass, main does not die and the observer thread stays
\* alive.
C11_PerFileErrorsContained ==
    /\ ~obs.raised
    /\ mpc # "crashed"
    /\ observer # "dead"

\* _process: the class the dispatch of _process gives a path.
Classify(path) ==
    IF _match_m3u8(path) THEN "Playlist"
    ELSE IF _match_segment(path) THEN "Segment"
    ELSE "Ignored"

\* C12: the handling of a deleted event for a path that classifies as
\* Playlist or Ignored removes no file of the destination and removes or
\* alters no dedup entry.
C12_DeleteOfNonSegmentChangesNothing ==
    [][(hpc \in {"del_exists", "del_remove"} /\ Classify(cur.path) # "Segment")
          => (dst' = dst /\ processed_mtime' = processed_mtime)]_vars

\* C13 as stated: a pass is triggered for a path only at a modification
\* time strictly greater than every modification time at which a pass for
\* that path has failed or was skipped before.
C13_NoRetry ==
    (chk.called /\ chk.ret) => chk.mtime > chk.ever

\* C13, amended: a pass is triggered for a path only at a modification time
\* strictly greater than every modification time at which a pass for that
\* path has failed or was skipped since a deleted event last removed the
\* path's mirrored file and cleared its dedup entry; until then the dedup
\* entry stays at or above those modification times.
C13_NoRetryUnlessCleared ==
    /\ (chk.called /\ chk.ret) => chk.mtime > chk.since
    /\ \A p \in Paths :
         nopass[p].since > 0 =>
            /\ p \in DOMAIN processed_mtime
            /\ processed_mtime[p] >= nopass[p].since

\* C13 witness: the pass for a segment failed part-way, and a later event
\* that found the segment at a modification time no greater was refused.
C13_Witness ==
    /\ chk.called /\ ~chk.ret
    /\ chk.mtime > 0 /\ chk.mtime <= chk.since
    /\ chk.path \in DOMAIN dst /\ ~dst[chk.path].complete
    /\ hpc = "idle"

(***************************************************************************)
(* Claims about the key material, checked under SpecMaterial.              *)
(***************************************************************************)
\* 32 hexadecimal characters
Is32Hex(s) == Len(s) = 32 /\ \A k \in 1..Len(s) : s[k] \in HexDigits

\* C14: when the resolution of the key material has succeeded, the key is
\* exactly 16 bytes, the head of the key file right-padded with zero bytes,
\* and the IV, if there is one, is exactly 16 bytes; an IV string that is
\* not exactly 32 hexadecimal characters, surrounding whitespace and an
\* optional 0x prefix put aside, is rejected.
C14_KeyMaterialSizes ==
    /\ rpc = "done" =>
        /\ Len(key_res) = 16
        /\ \A k \in 1..16 :
             key_res[k] = IF k <= Len(key_raw) THEN key_raw[k] ELSE 0
        /\ iv_res.present => Len(iv_res.bytes) = 16
    /\ (rpc \in {"iv", "done"} /\ iv_str # <<>>) => Is32Hex(IvDigits(iv_str))
    /\ rpc = "error" => ~Is32Hex(IvDigits(iv_str))

(***************************************************************************)
(* Claims about the startup enumeration and the not-stable policy.         *)
(***************************************************************************)
\* C15: the entries listed at startup are all passed to _process, the entry
\* point of live events, before the observer is started and before any live
\* event is delivered: until then no event is queued and every pass is a
\* startup pass.  A startup pass leaves its modification time in the dedup
\* state that live events consult: as long as the file has not been passed
\* at a greater modification time (and no deleted event has removed the
\* mirrored file and cleared the entry), the startup pass is the only pass
\* for the path, so a live event which finds the file at the modification
\* time of its startup pass triggers no second pass.
C15_StartupEnumeration ==
    /\ observer # "unstarted" => todo = {}
    /\ observer = "unstarted" =>
         /\ queue = <<>>
         /\ \A p \in Paths :
              passes[p] = IF startup[p] > 0 THEN <<startup[p]>> ELSE <<>>
    /\ \A p \in Paths :
         startup[p] > 0 =>
            /\ p \in DOMAIN processed_mtime
            /\ processed_mtime[p] = startup[p]
            /\ passes[p] = <<startup[p]>>

\* C15 witness: a live event for a file processed at startup, its
\* modification time unchanged, has been refused by the dedup check.
C15_Witness ==
    /\ observer = "running" /\ todo = {}
    /\ obs.task = "process" /\ obs.done
    /\ chk.called /\ chk.known /\ ~chk.ret
    /\ chk.mtime > 0 /\ chk.mtime = startup[chk.path]

\* C16: when _stable_wait has used up its tries without two equal sizes,
\* the pass goes on to encrypt_file in the same pass; it fails only for a
\* cause of its own (the file gone at the open, an I/O error), and without
\* one it ends with the complete ciphertext at the mirrored path.
C16_NotStableProceeds ==
    (sw.called /\ sw.ret = "false" /\ ~sw.vanished) =>
        /\ hpc \in {"makedirs", "open", "write"} \/ (obs.done /\ obs.encCalled)
        /\ ~obs.raised
        /\ (obs.done /\ obs.errLogged) => obs.cause \in {"vanished", "oserror"}
        /\ (obs.done /\ ~obs.errLogged) =>
              /\ obs.path \in DOMAIN dst
              /\ dst[obs.path].complete

\* C16 witness: a segment that never stabilised has been encrypted into its
\* mirrored path by the pass that found it not stable.
C16_Witness ==
    /\ sw.called /\ sw.ret = "false" /\ ~sw.vanished
    /\ Len(sw.reads) = stable_tries
    /\ obs.done /\ obs.encCalled /\ ~obs.errLogged
    /\ obs.path \in DOMAIN dst /\ dst[obs.path].complete

(***************************************************************************)
(* Claims about the mirror as a whole.                                     *)
(***************************************************************************)
\* The watcher is watching, no pass is run and no event waits.
Quiescent ==
    /\ mpc = "watching" /\ observer = "running"
    /\ hpc = "idle" /\ queue = <<>>

\* The mirrored file of p is the complete output for p's present content.
Mirrored(p) ==
    /\ p \in DOMAIN dst
    /\ dst[p] = [complete |-> TRUE, mtime |-> src[p].mtime, size |-> src[p].size]

\* C17: in a quiescent state every segment and every playlist that exists
\* under the source root, in a subdirectory or not, present at startup or
\* written later, has its mirrored file, made from its present content.
C17_MirrorEventuallyConsistent ==
    Quiescent =>
        \A p \in DOMAIN src : Classify(p) \in {"Segment", "Playlist"} => Mirrored(p)

\* The same for the files directly in the source root.
TopLevelConsistent ==
    Quiescent =>
        \A p \in DOMAIN src :
            (p.dir = "" /\ Classify(p) \in {"Segment", "Playlist"}) => Mirrored(p)

\* C18: in a quiescent state every file under the destination root is the
\* mirror of a source path that exists, and every path with a dedup entry
\* exists in the source.
C18_NoOrphans ==
    Quiescent =>
        /\ DOMAIN dst \subseteq DOMAIN src
        /\ DOMAIN processed_mtime \subseteq DOMAIN src

\* The length of a mirrored segment file: the ciphertext of the source's
\* bytes and their padding once written to the end; nothing before that
\* (a source shorter than a block is written in one piece, at the end).
MirrorLen(f) == IF f.complete THEN f.size + pkcs7_pad_length(f.size) ELSE 0

\* C19: a mirrored segment file whose pass is not being run is a complete
\* ciphertext: written to the end, its length a positive multiple of 16.
C19_MirroredSegmentComplete ==
    \A p \in DOMAIN dst :
        (Classify(p) = "Segment" /\ ~(hpc = "write" /\ cur.path = p)) =>
            /\ dst[p].complete
            /\ MirrorLen(dst[p]) > 0
            /\ MirrorLen(dst[p]) % BLOCKSIZE = 0

====
